---- MODULE Spec2Model ----
(***************************************************************************)
(* Model of solarspatialtools/cloudfield.py: the quantile classifier       *)
(* (_clip_field), the edge detector (_find_edges), the two distribution    *)
(* remappers (shift_mean_lave, lave_scaling_exact) and the stacked field   *)
(* synthesizer (stacked_field).                                            *)
(*                                                                         *)
(* Floating point values are modelled as exact rationals <<n, d>> in       *)
(* lowest terms with d > 0, extended with the three IEEE-754 special       *)
(* values numpy produces on a division by zero: NaN = <<0,0>>,             *)
(* +inf = <<1,0>>, -inf = <<-1,0>>.  Rounding error is not modelled.       *)
(* Arrays are flattened to sequences wherever the code only uses           *)
(* element-wise operations, reductions and quantiles; _find_edges and      *)
(* _random_at_scale keep the two dimensions.                               *)
(***************************************************************************)
EXTENDS Integers, Sequences, FiniteSets, TLC

VARIABLES fn, args, status, out

vars == <<fn, args, status, out>>

(***************************************************************************)
(* Floating point arithmetic (exact rationals with inf and nan).           *)
(***************************************************************************)
RECURSIVE GCD(_, _)
GCD(a, b) == IF b = 0 THEN a ELSE GCD(b, a % b)

IAbs(x) == IF x < 0 THEN -x ELSE x

Sgn(x) == IF x > 0 THEN 1 ELSE IF x < 0 THEN -1 ELSE 0

NaN == <<0, 0>>

IsNaN(a) == a[2] = 0 /\ a[1] = 0

IsFinite(a) == a[2] > 0

\* the float with value n/d, d # 0
Reduce(n, d, g) == <<n \div g, d \div g>>

Rat(n, d) ==
    IF d < 0 THEN Reduce(-n, -d, GCD(IAbs(n), IAbs(d)))
    ELSE Reduce(n, d, GCD(IAbs(n), IAbs(d)))

RInt(k) == <<k, 1>>

Zero == <<0, 1>>

One == <<1, 1>>

LCM(a, b) == (a \div GCD(a, b)) * b

RNeg(a) == <<-a[1], a[2]>>

\* a + b for finite a and b, l their common denominator
AddOver(a, b, l) == Rat(a[1] * (l \div a[2]) + b[1] * (l \div b[2]), l)

RAdd(a, b) ==
    IF IsNaN(a) \/ IsNaN(b) THEN NaN
    ELSE IF ~IsFinite(a) /\ ~IsFinite(b) THEN (IF a = b THEN a ELSE NaN)
    ELSE IF ~IsFinite(a) THEN a
    ELSE IF ~IsFinite(b) THEN b
    ELSE AddOver(a, b, LCM(a[2], b[2]))

RSub(a, b) == RAdd(a, RNeg(b))

\* a * b for finite a and b, cancelling g1 and g2 crosswise
MulOver(a, b, g1, g2) ==
    <<(a[1] \div g1) * (b[1] \div g2), (a[2] \div g2) * (b[2] \div g1)>>

RMul(a, b) ==
    IF IsNaN(a) \/ IsNaN(b) THEN NaN
    ELSE IF ~IsFinite(a) \/ ~IsFinite(b)
         THEN (IF a[1] = 0 \/ b[1] = 0 THEN NaN ELSE <<Sgn(a[1]) * Sgn(b[1]), 0>>)
    ELSE MulOver(a, b, GCD(IAbs(a[1]), b[2]), GCD(IAbs(b[1]), a[2]))

\* numpy true division: x/0 is +-inf, 0/0 and inf/inf are nan (a warning, no error)
RDiv(a, b) ==
    IF IsNaN(a) \/ IsNaN(b) THEN NaN
    ELSE IF ~IsFinite(b) THEN (IF IsFinite(a) THEN Zero ELSE NaN)
    ELSE IF b[1] = 0 THEN (IF a[1] = 0 THEN NaN ELSE <<Sgn(a[1]), 0>>)
    ELSE IF ~IsFinite(a) THEN <<Sgn(a[1]) * Sgn(b[1]), 0>>
    ELSE RMul(a, <<Sgn(b[1]) * b[2], IAbs(b[1])>>)

\* a < b for finite a and b, l their common denominator
LtOver(a, b, l) == a[1] * (l \div a[2]) < b[1] * (l \div b[2])

\* a < b; every comparison with nan is false
RLt(a, b) ==
    IF IsNaN(a) \/ IsNaN(b) THEN FALSE
    ELSE IF ~IsFinite(a) \/ ~IsFinite(b)
         THEN (IF ~IsFinite(a) /\ ~IsFinite(b) THEN a[1] < b[1]
               ELSE IF ~IsFinite(a) THEN a[1] < 0
               ELSE b[1] > 0)
    ELSE LtOver(a, b, LCM(a[2], b[2]))

RGt(a, b) == RLt(b, a)

REq(a, b) == ~IsNaN(a) /\ ~IsNaN(b) /\ a = b

RLe(a, b) == RLt(a, b) \/ REq(a, b)

RNe(a, b) == ~REq(a, b)

RAbs(a) == <<IAbs(a[1]), a[2]>>

(***************************************************************************)
(* Reductions over flattened arrays.                                       *)
(***************************************************************************)
Idx(xs) == 1..Len(xs)

RECURSIVE SumUpTo(_, _)
SumUpTo(xs, k) == IF k = 0 THEN Zero ELSE RAdd(SumUpTo(xs, k - 1), xs[k])

\* np.sum
RSum(xs) == SumUpTo(xs, Len(xs))

\* np.mean: the mean of an empty selection is nan (0/0)
RMean(xs) == RDiv(RSum(xs), RInt(Len(xs)))

\* boolean-mask selection a[mask], in index order
RECURSIVE SelUpTo(_, _, _)
SelUpTo(xs, keep, k) ==
    IF k = 0 THEN <<>>
    ELSE IF keep[k] THEN Append(SelUpTo(xs, keep, k - 1), xs[k])
    ELSE SelUpTo(xs, keep, k - 1)

Select(xs, keep) == SelUpTo(xs, keep, Len(xs))

\* np.sum of a boolean array
CountTrue(keep) == Cardinality({i \in DOMAIN keep : keep[i]})

\* np.min / np.max: nan if any element is nan
RMin(xs) ==
    IF \E i \in Idx(xs) : IsNaN(xs[i]) THEN NaN
    ELSE xs[CHOOSE i \in Idx(xs) : \A j \in Idx(xs) : ~RLt(xs[j], xs[i])]

RMax(xs) ==
    IF \E i \in Idx(xs) : IsNaN(xs[i]) THEN NaN
    ELSE xs[CHOOSE i \in Idx(xs) : \A j \in Idx(xs) : ~RLt(xs[i], xs[j])]

\* the finite array xs in ascending order
RECURSIVE InsertSorted(_, _)
InsertSorted(x, sorted) ==
    IF sorted = <<>> THEN <<x>>
    ELSE IF RLt(x, Head(sorted)) THEN <<x>> \o sorted
    ELSE <<Head(sorted)>> \o InsertSorted(x, Tail(sorted))

RECURSIVE SortUpTo(_, _)
SortUpTo(xs, k) == IF k = 0 THEN <<>> ELSE InsertSorted(xs[k], SortUpTo(xs, k - 1))

Sort(xs) == SortUpTo(xs, Len(xs))

\* a + (b - a) * g
Lerp(a, b, g) == RAdd(a, RMul(g, RSub(b, a)))

\* the quantile of the sorted array at the virtual index h, lo = floor(h)
\* (0-based ranks lo and lo+1, the latter capped at n-1)
QuantileAt(sorted, h, lo) ==
    Lerp(sorted[lo + 1],
         sorted[IF lo + 1 > Len(sorted) - 1 THEN Len(sorted) ELSE lo + 2],
         RSub(h, RInt(lo)))

QuantileIndex(sorted, h) == QuantileAt(sorted, h, h[1] \div h[2])

\* np.quantile(xs, q), method 'linear', on a non-empty finite array, 0 <= q <= 1:
\* the virtual index is (n-1)*q
Quantile(xs, q) == QuantileIndex(Sort(xs), RMul(RInt(Len(xs) - 1), q))

(***************************************************************************)
(* Bounds of the model and the input domains drawn from them.              *)
(***************************************************************************)
\* largest number of pixels of a flattened input field
MaxPix == 4

\* pixel values are the multiples of 1/ValDen in [0, 1]
ValDen == 3

Vals == {Rat(k, ValDen) : k \in 0..ValDen}

RECURSIVE SeqsOfLen(_, _)
SeqsOfLen(S, n) ==
    IF n = 0 THEN {<<>>}
    ELSE {Append(s, x) : s \in SeqsOfLen(S, n - 1), x \in S}

Fields == UNION {SeqsOfLen(Vals, n) : n \in 1..MaxPix}

\* a clear fraction a hair below one half
FracNearHalf == <<99899999, 200000000>>

\* clear fractions in (0, 1)
Fracs == {Rat(1, 10), Rat(3, 10), Rat(2, 5), Rat(1, 2), Rat(7, 10), Rat(9, 10),
          Rat(1, 4), Rat(3, 4), Rat(1, 3), Rat(2, 3), FracNearHalf}

\* the value of out before the call returns and after it raises
NoOut == [none |-> TRUE]

(***************************************************************************)
(* _clip_field(field, clear_frac)                                          *)
(***************************************************************************)
RtolDen == 1000

AtolDen == 100000000

\* np.isclose(a, b, rtol=1e-3): |a - b| <= atol + rtol * |b|, atol = 1e-8
IsClose(a, b) ==
    RLe(RAbs(RSub(a, b)),
        RAdd(Rat(1, AtolDen), RMul(Rat(1, RtolDen), RAbs(b))))

\* variant: zeros_like, with the pixels above the quantile set to 1
ClipPixelSwapped(v, quant) == IF RGt(v, quant) THEN One ELSE Zero

\* field_out = ones_like(field); field_out[field > quant] = 0
ClipPixel(v, quant) == IF RGt(v, quant) THEN Zero ELSE One

ClipMask(field, quant) == [i \in Idx(field) |-> ClipPixel(field[i], quant)]

\* np.sum(field_out) / field.size
RealizedFrac(mask) == RDiv(RSum(mask), RInt(Len(mask)))

\* variant: the assert stripped
ClipAssertOff(clear_frac, mask) == TRUE

\* the assert on the realized fraction
ClipAssert(clear_frac, mask) == IsClose(clear_frac, RealizedFrac(mask))

InitClip ==
    /\ fn = "_clip_field"
    /\ args \in [field : Fields, clear_frac : Fracs]
    /\ status = "called"
    /\ out = NoOut

ClipField ==
    /\ fn = "_clip_field"
    /\ status = "called"
    /\ LET quant == Quantile(args.field, args.clear_frac)
           mask  == ClipMask(args.field, quant)
       IN  IF ClipAssert(args.clear_frac, mask)
           THEN /\ status' = "returned"
                /\ out' = [quant |-> quant, field_out |-> mask]
           ELSE /\ status' = "AssertionError"
                /\ out' = NoOut
    /\ UNCHANGED <<fn, args>>

NextClip == ClipField

SpecClip == InitClip /\ [][NextClip]_vars

ClipReturned == fn = "_clip_field" /\ status = "returned"

\* number of pixels of args.field below (or at) v
NBelow(v) == Cardinality({i \in Idx(args.field) : RLt(args.field[i], v)})

NAtOrBelow(v) == Cardinality({i \in Idx(args.field) : RLe(args.field[i], v)})

\* q has the rank of the clear_frac-quantile: with h = (n-1)*clear_frac, at
\* most ceil(h) pixels lie below q and at least floor(h)+1 at or below it
HasQuantileRank(q) ==
    LET h == RMul(RInt(Len(args.field) - 1), args.clear_frac)
        fl == h[1] \div h[2]
        ce == IF fl * h[2] = h[1] THEN fl ELSE fl + 1
    IN  NBelow(q) <= ce /\ NAtOrBelow(q) >= fl + 1

\* C1 as stated: the returned mask is 1 exactly on the pixels strictly
\* greater than the clear_frac-quantile q and 0 on all the others.
C1_GreaterIsClear ==
    ClipReturned =>
        /\ HasQuantileRank(out.quant)
        /\ \A i \in Idx(args.field) :
              out.field_out[i] = (IF RGt(args.field[i], out.quant) THEN One ELSE Zero)

\* C1 amended: q is the clear_frac-quantile and the returned mask is 0 exactly
\* on the pixels strictly greater than q and 1 on all the others (<= q).
C1_GreaterIsCloudy ==
    ClipReturned =>
        /\ HasQuantileRank(out.quant)
        /\ \A i \in Idx(args.field) :
              out.field_out[i] = (IF RGt(args.field[i], out.quant) THEN Zero ELSE One)

\* a returned mask with a pixel above q (0) and a pixel at or below q (1)
C1_Witness ==
    /\ ClipReturned
    /\ \E i, j \in Idx(args.field) :
          /\ RGt(args.field[i], out.quant) /\ out.field_out[i] = Zero
          /\ RLe(args.field[j], out.quant) /\ out.field_out[j] = One

\* count of 1s / total pixels of the returned mask
OnesFrac ==
    Rat(Cardinality({i \in Idx(out.field_out) : out.field_out[i] = One}),
        Len(out.field_out))

RMaxOf(a, b) == IF RLt(a, b) THEN b ELSE a

\* C2 as stated: a returned mask's realized fraction is within relative
\* tolerance 1e-3 of clear_frac (relative to the larger of the two).
C2_WithinRelTol ==
    ClipReturned =>
        RLe(RAbs(RSub(args.clear_frac, OnesFrac)),
            RDiv(RMaxOf(args.clear_frac, OnesFrac), RInt(RtolDen)))

\* C2 amended: a returned mask's realized fraction r satisfies
\* |clear_frac - r| <= 1e-8 + 1e-3 * r; a call that does not return a mask
\* fails with the assertion error and leaves no mask.
C2_WithinIsCloseTol ==
    fn = "_clip_field" =>
        /\ status = "returned" =>
              RLe(RAbs(RSub(args.clear_frac, OnesFrac)),
                  RAdd(Rat(1, AtolDen), RDiv(OnesFrac, RInt(RtolDen))))
        /\ status \in {"called", "returned", "AssertionError"}
        /\ status # "returned" => out = NoOut

\* a field with tied pixel values whose call failed with the assertion error
C2_Witness ==
    /\ fn = "_clip_field"
    /\ status = "AssertionError"
    /\ out = NoOut
    /\ \E i, j \in Idx(args.field) : i # j /\ args.field[i] = args.field[j]

(***************************************************************************)
(* shift_mean_lave(field, ktmean) with the default ktmin, min_quant and    *)
(* max_quant.                                                              *)
(***************************************************************************)
\* target means
KtMeans == {Rat(k, 10) : k \in 1..9}

\* ktmin=0.2
KtMin == Rat(1, 5)

\* min_quant=0.005, max_quant=0.995
MinQuant == Rat(5, 1000)

MaxQuant == Rat(995, 1000)

\* np.quantile of an empty selection raises IndexError or yields nan,
\* depending on the numpy release; onEmpty is the outcome of this build
EmptyOutcomes == {"nan", "IndexError"}

QuantileOf(xs, q) == IF Len(xs) = 0 THEN NaN ELSE Quantile(xs, q)

\* the outcomes of the quantile of xs that matter: one when xs is not empty
EmptyOutcomesOf(xs) == IF Len(xs) = 0 THEN EmptyOutcomes ELSE {"nan"}

QuantileRaises(xs, onEmpty) == Len(xs) = 0 /\ onEmpty = "IndexError"

\* field[field < 1]
NonClear(field) == Select(field, [i \in Idx(field) |-> RLt(field[i], One)])

\* (field - field_min) / (field_max - field_min) * (1-ktmin) + ktmin
ShiftRescale(v, fmin, fmax) ==
    RAdd(RMul(RDiv(RSub(v, fmin), RSub(fmax, fmin)), RSub(One, KtMin)), KtMin)

\* field_out[field_out > 1] = 1; field_out[field_out < 0] = 0
Clip01(v) == IF RGt(v, One) THEN One ELSE IF RLt(v, Zero) THEN Zero ELSE v

\* variant: the multiplier applied to the whole array
ShiftMultiplyAll(v, ratio) == RMul(ratio, v)

\* field_out[field_out!=1] = tgt_mean / current_cloud_mean * field_out[field_out!=1]
ShiftMultiply(v, ratio) == IF RNe(v, One) THEN RMul(ratio, v) ELSE v

\* variant: the ratio inverted
ShiftRatioInverse(tgt_mean, current_cloud_mean) == RDiv(current_cloud_mean, tgt_mean)

\* tgt_mean / current_cloud_mean
ShiftRatio(tgt_mean, current_cloud_mean) == RDiv(tgt_mean, current_cloud_mean)

\* if diff_sum > 0
ShiftGuard(diff_sum) == RGt(diff_sum, Zero)

InitShift ==
    /\ fn = "shift_mean_lave"
    /\ args \in [field : Fields, ktmean : KtMeans]
    /\ status = "called"
    /\ out = NoOut

\* the body of shift_mean_lave; each \E binds the value of one assignment
ShiftMeanLave ==
    /\ fn = "shift_mean_lave"
    /\ status = "called"
    /\ \E cloudy \in {NonClear(args.field)} :
       \E onEmpty \in EmptyOutcomesOf(cloudy) :
          IF QuantileRaises(cloudy, onEmpty)
          THEN /\ status' = "IndexError"
               /\ out' = NoOut
          ELSE \E fmax \in {QuantileOf(cloudy, MaxQuant)},
                  fmin \in {QuantileOf(cloudy, MinQuant)} :
               \E clipped \in {[i \in Idx(args.field) |->
                                  Clip01(ShiftRescale(args.field[i], fmin, fmax))]} :
               \E n_clear \in {CountTrue([i \in Idx(clipped) |-> REq(clipped[i], One)])},
                  below \in {[i \in Idx(clipped) |-> RLt(clipped[i], One)]} :
               \E diff_sum \in {RSub(RMul(RInt(Len(clipped)), args.ktmean), RInt(n_clear))},
                  current_cloud_mean \in {RMean(Select(clipped, below))} :
               \E tgt_mean \in {RDiv(diff_sum, RInt(CountTrue(below)))},
                  taken \in {ShiftGuard(diff_sum)} :
               \E ratio \in {ShiftRatio(tgt_mean, current_cloud_mean)} :
                  /\ status' = "returned"
                  /\ out' = [field_min |-> fmin, field_max |-> fmax,
                             clipped |-> clipped, diff_sum |-> diff_sum,
                             tgt_mean |-> tgt_mean,
                             current_cloud_mean |-> current_cloud_mean,
                             taken |-> taken,
                             denominators |->
                                 <<RSub(fmax, fmin), RInt(CountTrue(below))>>
                                 \o (IF taken THEN <<current_cloud_mean>> ELSE <<>>),
                             field_out |->
                                 [i \in Idx(clipped) |->
                                     IF taken THEN ShiftMultiply(clipped[i], ratio)
                                     ELSE clipped[i]]]
    /\ UNCHANGED <<fn, args>>

NextShift == ShiftMeanLave

SpecShift == InitShift /\ [][NextShift]_vars

ShiftReturned == fn = "shift_mean_lave" /\ status = "returned"

\* the non-clear (<1) pixels of the input exist and are not all equal
ShiftNonClearDiffer ==
    \E i, j \in Idx(args.field) :
        /\ RLt(args.field[i], One) /\ RLt(args.field[j], One)
        /\ args.field[i] # args.field[j]

\* C4: for a field with values in [0,1] whose non-clear pixels are not all
\* equal, every pixel equal to 1 in the input is exactly 1 in the output of
\* shift_mean_lave, whichever branch of the mean-shift step is taken.
C4_ClearStaysClear ==
    (ShiftReturned /\ ShiftNonClearDiffer) =>
        \A i \in Idx(args.field) :
            args.field[i] = One => out.field_out[i] = One

\* a clear input pixel kept at 1 while the multiplier changed a cloudy pixel
C4_Witness ==
    /\ ShiftReturned /\ ShiftNonClearDiffer
    /\ out.taken
    /\ \E i, j \in Idx(args.field) :
          /\ args.field[i] = One /\ out.field_out[i] = One
          /\ out.field_out[j] # out.clipped[j]

\* ktmean lies below the mean of the non-clear pixels of the input
ShiftBelowCloudMean == RLt(args.ktmean, RMean(NonClear(args.field)))

\* |mean(out) - ktmean| < |mean(in) - ktmean|
ShiftCloser ==
    RLt(RAbs(RSub(RMean(out.field_out), args.ktmean)),
        RAbs(RSub(RMean(args.field), args.ktmean)))

\* the first rescale is defined: field_max > field_min
ShiftRegular == RGt(out.field_max, out.field_min)

\* size*ktmean - count(pixels == 1 after the rescale-and-clip step)
ShiftDiffSum ==
    RSub(RMul(RInt(Len(args.field)), args.ktmean),
         RInt(Cardinality({i \in Idx(args.field) : out.clipped[i] = One})))

MaxPixLave == 3

\* its pixel values are the multiples of 1/ValDenLave in [0, 1]
ValDenLave == 2

LaveFields ==
    UNION {SeqsOfLen({Rat(k, ValDenLave) : k \in 0..ValDenLave}, n) : n \in 1..MaxPixLave}

LaveKtMeans == {Rat(1, 5), Rat(4, 5)}

\* ktmax=1.4, kt1pct=0.2, max_quant=0.99
KtMax == Rat(7, 5)

Kt1Pct == Rat(1, 5)

LaveMaxQuant == Rat(99, 100)

\* 1 - field*(1-kt1pct)/field_max
LaveFlip(v, field_max) == RSub(One, RDiv(RMul(v, RSub(One, Kt1Pct)), field_max))

\* 1 + (clouds3/mean_c3 - nmin_c3)/nrange_c3*(ktmax-1)
LaveEnhance(v, mean_c3, nmin_c3, nrange_c3) ==
    RAdd(One, RMul(RDiv(RSub(RDiv(v, mean_c3), nmin_c3), nrange_c3), RSub(KtMax, One)))

\* variant: the rescale guarded by the comparison of the two means
LaveGuardMeans(diff_sum, tgt_cloud_mean, current_cloud_mean) ==
    RGt(tgt_cloud_mean, current_cloud_mean)

\* if diff_sum > 0
LaveGuard(diff_sum, tgt_cloud_mean, current_cloud_mean) == RGt(diff_sum, Zero)

\* variant: the clear overwrite applied before the edge overwrite
LaveComposeEdgeLast(c4, ce, edge, clear) ==
    IF edge THEN ce ELSE IF RGt(clear, Zero) THEN One ELSE c4

\* clouds5[edge_mask] = ce[edge_mask > 0]; clouds5[clear_mask > 0] = 1
LaveCompose(c4, ce, edge, clear) ==
    IF RGt(clear, Zero) THEN One ELSE IF edge THEN ce ELSE c4

InitLave ==
    /\ fn = "lave_scaling_exact"
    /\ \E field \in LaveFields, ktmean \in LaveKtMeans :
          \E clear_mask \in [Idx(field) -> {Zero, One}],
             edge_mask \in [Idx(field) -> BOOLEAN] :
                args = [field |-> field, clear_mask |-> clear_mask,
                        edge_mask |-> edge_mask, ktmean |-> ktmean]
    /\ status = "called"
    /\ out = NoOut

\* field[clear_mask == 0]
LaveNonClear(field, clear_mask) ==
    Select(field, [i \in Idx(field) |-> clear_mask[i] = Zero])

\* the body of lave_scaling_exact; each \E binds the value of one assignment
LaveScalingExact ==
    /\ fn = "lave_scaling_exact"
    /\ status = "called"
    /\ \E cloudy \in {LaveNonClear(args.field, args.clear_mask)} :
       \E onEmpty \in EmptyOutcomesOf(cloudy) :
          IF QuantileRaises(cloudy, onEmpty)
          THEN /\ status' = "IndexError"
               /\ out' = NoOut
          ELSE \E field_max \in {QuantileOf(cloudy, LaveMaxQuant)} :
               \E clouds3 \in {[i \in Idx(args.field) |->
                                  Clip01(LaveFlip(args.field[i], field_max))]} :
               \E mean_c3 \in {RMean(clouds3)} :
               \E nmin_c3 \in {RDiv(RMin(clouds3), mean_c3)} :
               \E nrange_c3 \in {RSub(RDiv(RMax(clouds3), mean_c3), nmin_c3)} :
               \E ce \in {[i \in Idx(clouds3) |->
                             LaveEnhance(clouds3[i], mean_c3, nmin_c3, nrange_c3)]},
                  cloud_mask \in {[i \in Idx(clouds3) |->
                                     ~(RGt(args.clear_mask[i], Zero) \/ args.edge_mask[i])]},
                  edge_only \in {[i \in Idx(clouds3) |->
                                    args.edge_mask[i] /\ args.clear_mask[i] = Zero]} :
               \E diff_sum \in {RSub(RSub(RMul(RInt(Len(clouds3)), args.ktmean),
                                          RSum(args.clear_mask)),
                                     RSum(Select(ce, edge_only)))},
                  current_cloud_mean \in {RMean(Select(clouds3, cloud_mask))} :
               \E tgt_cloud_mean \in {RDiv(diff_sum, RInt(CountTrue(cloud_mask)))} :
               \E taken \in {LaveGuard(diff_sum, tgt_cloud_mean, current_cloud_mean)},
                  ratio \in {RDiv(tgt_cloud_mean, current_cloud_mean)} :
               \E clouds4 \in {[i \in Idx(clouds3) |->
                                  IF taken THEN RMul(ratio, clouds3[i]) ELSE clouds3[i]]} :
                  /\ status' = "returned"
                  /\ out' = [field_max |-> field_max, clouds3 |-> clouds3, ce |-> ce,
                             diff_sum |-> diff_sum, tgt_cloud_mean |-> tgt_cloud_mean,
                             current_cloud_mean |-> current_cloud_mean,
                             taken |-> taken, clouds4 |-> clouds4,
                             denominators |->
                                 <<field_max, mean_c3, nrange_c3,
                                   RInt(CountTrue(cloud_mask))>>
                                 \o (IF taken THEN <<current_cloud_mean>> ELSE <<>>),
                             clouds5 |->
                                 [i \in Idx(clouds3) |->
                                     LaveCompose(clouds4[i], ce[i], args.edge_mask[i],
                                                 args.clear_mask[i])]]
    /\ UNCHANGED <<fn, args>>

NextLave == LaveScalingExact

SpecLave == InitLave /\ [][NextLave]_vars

LaveReturned == fn = "lave_scaling_exact" /\ status = "returned"

\* C3: in the output of lave_scaling_exact every pixel with clear_mask > 0 is
\* exactly 1.0, also where edge_mask is set and whichever branch of the
\* mean rescale was taken.
C3_ClearWins ==
    LaveReturned =>
        \A i \in Idx(args.field) :
            RGt(args.clear_mask[i], Zero) => out.clouds5[i] = One

\* the rescale branch was taken and a pixel both clear and edge, whose
\* enhancement value is not 1, is 1 in the output
C3_Witness ==
    /\ LaveReturned
    /\ out.taken
    /\ \E i \in Idx(args.field) :
          /\ args.clear_mask[i] = One /\ args.edge_mask[i]
          /\ IsFinite(out.ce[i]) /\ out.ce[i] # One
          /\ out.clouds5[i] = One

\* no denominator of the call was zero and every computed value is finite
LaveRegular ==
    /\ \A k \in Idx(out.denominators) :
          IsFinite(out.denominators[k]) /\ out.denominators[k] # Zero
    /\ \A i \in Idx(args.field) : IsFinite(out.ce[i]) /\ IsFinite(out.clouds4[i])
    /\ IsFinite(out.current_cloud_mean) /\ IsFinite(out.tgt_cloud_mean)

\* clouds4 is clouds3 multiplied by tgt_cloud_mean / current_cloud_mean
LaveScaled ==
    \A i \in Idx(args.field) :
        out.clouds4[i] =
            RMul(RDiv(out.tgt_cloud_mean, out.current_cloud_mean), out.clouds3[i])

\* C9 as stated, on the calls where no denominator is zero: clouds is
\* multiplied by the ratio iff tgt_cloud_mean exceeds the current plain-cloud
\* mean, and is left unchanged otherwise.
C9_ScaledIffMeanExceeds ==
    (LaveReturned /\ LaveRegular) =>
        IF RGt(out.tgt_cloud_mean, out.current_cloud_mean)
        THEN out.taken /\ LaveScaled
        ELSE ~out.taken /\ out.clouds4 = out.clouds3

\* the target sum minus the clear pixels minus the edge enhancement
LaveDiffSum ==
    LET edge_only == [i \in Idx(args.field) |->
                        args.edge_mask[i] /\ ~RGt(args.clear_mask[i], Zero)]
    IN  RSub(RSub(RMul(RInt(Len(args.field)), args.ktmean), RSum(args.clear_mask)),
             RSum(Select(out.ce, edge_only)))

\* C9 amended: clouds is multiplied by tgt_cloud_mean / current_cloud_mean iff
\* diff_sum > 0, that is iff the required plain-cloud mean is positive, also
\* when it is at most the current plain-cloud mean; else it is left unchanged.
C9_ScaledIffDiffSumPositive ==
    LaveReturned =>
        IF RGt(LaveDiffSum, Zero)
        THEN out.taken /\ LaveScaled
        ELSE ~out.taken /\ out.clouds4 = out.clouds3

\* the clouds were scaled down: 0 < tgt_cloud_mean < current_cloud_mean
C9_Witness ==
    /\ LaveReturned /\ LaveRegular
    /\ RGt(out.tgt_cloud_mean, Zero)
    /\ RLt(out.tgt_cloud_mean, out.current_cloud_mean)
    /\ out.taken /\ LaveScaled
    /\ out.clouds4 # out.clouds3

\* some denominator of a rescale step of the call was zero
ZeroDenominator ==
    \E k \in Idx(out.denominators) : out.denominators[k] = Zero

\* the selection the call takes its quantiles of is not empty
HasCloudPixel ==
    \E i \in Idx(args.field) :
        IF fn = "shift_mean_lave" THEN RLt(args.field[i], One)
        ELSE args.clear_mask[i] = Zero

\* C8: shift_mean_lave and lave_scaling_exact return no field when field_max
\* or a denominator of a rescale step is zero; a returned field holds no nan
\* and no infinite value.
C8_DegenerateFails ==
    /\ (ShiftReturned /\ HasCloudPixel) =>
          /\ ~ZeroDenominator
          /\ \A i \in Idx(args.field) : IsFinite(out.field_out[i])
    /\ (LaveReturned /\ HasCloudPixel) =>
          /\ ~ZeroDenominator
          /\ \A i \in Idx(args.field) : IsFinite(out.clouds5[i])

InitRemap == InitShift \/ InitLave

NextRemap == ShiftMeanLave \/ LaveScalingExact

SpecRemap == InitRemap /\ [][NextRemap]_vars

(***************************************************************************)
(* _find_edges(base_mask, size).  base_mask is a rows x cols array of 0/1, *)
(* kept as the function [<<i, j>> |-> value] with 1-based indices.         *)
(***************************************************************************)
\* number of columns of the mask
EdgeCols == 4

\* shapes (rows, cols) of the mask
EdgeShapes == {<<3, EdgeCols - 1>>, <<2, EdgeCols>>}

\* smoothing window sizes
WinSizes == {1, 2, 3}

Pixels(shape) == (1..shape[1]) \X (1..shape[2])

\* boundary mode 'reflect' (d c b a | a b c d | d c b a) of an index i of an
\* axis of length n
Reflect(i, n) ==
    LET m == (i - 1) % (2 * n)
    IN  IF m < n THEN m + 1 ELSE 2 * n - m

\* scipy.ndimage.sobel(base_mask): axis=-1, mode='reflect'; the derivative
\* [-1, 0, 1] along the last axis, then the smoothing [1, 2, 1] along axis 0
Sobel(mask, shape) ==
    LET d == [p \in Pixels(shape) |->
                mask[<<p[1], Reflect(p[2] + 1, shape[2])>>]
                - mask[<<p[1], Reflect(p[2] - 1, shape[2])>>]]
    IN  [p \in Pixels(shape) |->
            d[<<Reflect(p[1] - 1, shape[1]), p[2]>>] + 2 * d[p]
            + d[<<Reflect(p[1] + 1, shape[1]), p[2]>>]]

\* the offsets of a uniform_filter1d window of the given size (origin 0)
Window(size) == (-(size \div 2))..(size - (size \div 2) - 1)

RECURSIVE ISum(_, _)
ISum(f, S) ==
    IF S = {} THEN 0
    ELSE LET x == CHOOSE x \in S : TRUE IN f[x] + ISum(f, S \ {x})

\* uniform_filter(edges, size=size), mode='reflect': the mean over the
\* size x size window, along both axes
UniformFilter(edges, shape, size) ==
    LET rowsum == [p \in Pixels(shape) |->
                     ISum([o \in Window(size) |->
                              edges[<<Reflect(p[1] + o, shape[1]), p[2]>>]],
                          Window(size))]
    IN  [p \in Pixels(shape) |->
            Rat(ISum([o \in Window(size) |->
                         rowsum[<<p[1], Reflect(p[2] + o, shape[2])>>]],
                     Window(size)),
                size * size)]

\* smoothed[smoothed < 1e-5] = 0
ZeroSmall(v) == IF RLt(v, Rat(1, 100000)) THEN Zero ELSE v

\* row-major flattening of a 2-D array
Flatten(a, shape) ==
    [k \in 1..(shape[1] * shape[2]) |->
        a[<<((k - 1) \div shape[2]) + 1, ((k - 1) % shape[2]) + 1>>]]

\* variant: the binarization comparison reversed
BinarizeBelow(v, baseline) == RLt(v, baseline)

\* smoothed_binary = smoothed > baseline
Binarize(v, baseline) == RGt(v, baseline)

InitEdges ==
    /\ fn = "_find_edges"
    /\ \E shape \in EdgeShapes, size \in WinSizes :
          \E mask \in [Pixels(shape) -> {0, 1}] :
              args = [base_mask |-> mask, shape |-> shape, size |-> size]
    /\ status = "called"
    /\ out = NoOut

\* edges = np.abs(sobel(base_mask))
EdgesSobel ==
    /\ fn = "_find_edges"
    /\ status = "called"
    /\ LET sob == Sobel(args.base_mask, args.shape)
       IN  out' = [edges |-> [p \in Pixels(args.shape) |-> IAbs(sob[p])]]
    /\ status' = "sobel"
    /\ UNCHANGED <<fn, args>>

\* smoothed = uniform_filter(edges, size=size); smoothed[smoothed < 1e-5] = 0
EdgesSmooth ==
    /\ fn = "_find_edges"
    /\ status = "sobel"
    /\ LET filtered == UniformFilter(out.edges, args.shape, args.size)
       IN  out' = [edges |-> out.edges,
                   smoothed |-> [p \in Pixels(args.shape) |-> ZeroSmall(filtered[p])]]
    /\ status' = "smoothed"
    /\ UNCHANGED <<fn, args>>

\* baseline = np.quantile(smoothed[smoothed>0], 0.5)
EdgesBaseline ==
    /\ fn = "_find_edges"
    /\ status = "smoothed"
    /\ \E flat \in {Flatten(out.smoothed, args.shape)} :
       \E positive \in {Select(flat, [k \in Idx(flat) |-> RGt(flat[k], Zero)])} :
       \E onEmpty \in EmptyOutcomesOf(positive) :
              IF QuantileRaises(positive, onEmpty)
              THEN /\ status' = "IndexError"
                   /\ out' = NoOut
              ELSE /\ status' = "baseline"
                   /\ out' = [edges |-> out.edges, smoothed |-> out.smoothed,
                              baseline |-> QuantileOf(positive, Rat(1, 2))]
    /\ UNCHANGED <<fn, args>>

\* smoothed_binary = smoothed > baseline; return edges, smoothed_binary
EdgesBinarize ==
    /\ fn = "_find_edges"
    /\ status = "baseline"
    /\ out' = [edges |-> out.edges, smoothed |-> out.smoothed,
               baseline |-> out.baseline,
               smoothed_binary |->
                   [p \in Pixels(args.shape) |->
                       Binarize(out.smoothed[p], out.baseline)]]
    /\ status' = "returned"
    /\ UNCHANGED <<fn, args>>

\* _find_edges, statement by statement
NextEdges == EdgesSobel \/ EdgesSmooth \/ EdgesBaseline \/ EdgesBinarize

SpecEdges == InitEdges /\ [][NextEdges]_vars

EdgesReturned == fn = "_find_edges" /\ status = "returned"

\* the pixels within the reach of the smoothing window plus the 3x3 operator
Reach(p) ==
    LET r == (args.size \div 2) + 1
    IN  {q \in Pixels(args.shape) :
            IAbs(q[1] - p[1]) <= r /\ IAbs(q[2] - p[2]) <= r}

\* the input mask is uniform (all 0 or all 1) on the set S of pixels
Uniform(S) == \A q1, q2 \in S : args.base_mask[q1] = args.base_mask[q2]

\* C7: a pixel set in the binary edge mask has a clear/cloud transition of the
\* input mask within the reach of the smoothing window plus the 3x3 operator;
\* a pixel whose whole such neighbourhood is uniform is never marked.
C7_EdgesNearTransition ==
    EdgesReturned =>
        \A p \in Pixels(args.shape) :
            out.smoothed_binary[p] => ~Uniform(Reach(p))

\* a mask with a marked pixel and, away from the transition, an unmarked
\* pixel whose neighbourhood is uniform
C7_Witness ==
    /\ EdgesReturned
    /\ \E p, q \in Pixels(args.shape) :
          /\ out.smoothed_binary[p] /\ ~Uniform(Reach(p))
          /\ ~out.smoothed_binary[q] /\ Uniform(Reach(q))

\* the call returns on every numpy release: the quantile was taken of a
\* non-empty selection
EdgesReturnedAnyRelease == EdgesReturned /\ ~IsNaN(out.baseline)

\* the rows / columns the 3x3 operator reads around row i / column j
RowsNear(i) == {Reflect(i - 1, args.shape[1]), i, Reflect(i + 1, args.shape[1])}

ColsNear(j) == {Reflect(j - 1, args.shape[2]), j, Reflect(j + 1, args.shape[2])}

\* around row i the mask is a boundary running purely along axis 0: one value
\* up to column c and the other one after it, a transition along the last axis
ColTransitionAt(i, c) ==
    /\ c < args.shape[2]
    /\ \E a \in {0, 1} :
          \A r \in RowsNear(i), j \in 1..args.shape[2] :
              args.base_mask[<<r, j>>] = (IF j <= c THEN a ELSE 1 - a)

\* around column j the mask is a boundary running purely along the last axis:
\* one value up to row r and the other one after it, a transition along axis 0
RowTransitionAt(r, j) ==
    /\ r < args.shape[1]
    /\ \E a \in {0, 1} :
          \A c \in ColsNear(j), i \in 1..args.shape[1] :
              args.base_mask[<<i, c>>] = (IF i <= r THEN a ELSE 1 - a)

\* C10: a clear/cloud transition between two neighbouring pixels, along the
\* last axis or along axis 0, of a boundary running purely along the other
\* axis gives a nonzero raw edge magnitude at the two pixels bordering it.
C10_BothAxesDetected ==
    EdgesReturnedAnyRelease =>
        \A p \in Pixels(args.shape) :
            /\ ColTransitionAt(p[1], p[2]) =>
                  out.edges[p] # 0 /\ out.edges[<<p[1], p[2] + 1>>] # 0
            /\ RowTransitionAt(p[1], p[2]) =>
                  out.edges[p] # 0 /\ out.edges[<<p[1] + 1, p[2]>>] # 0

\* the transitions along the last axis alone (the axis sobel's default
\* differentiates)
EdgesLastAxisDetected ==
    EdgesReturnedAnyRelease =>
        \A p \in Pixels(args.shape) :
            ColTransitionAt(p[1], p[2]) =>
                out.edges[p] # 0 /\ out.edges[<<p[1], p[2] + 1>>] # 0

(***************************************************************************)
(* stacked_field(vs, size, weights, scales) and _random_at_scale.          *)
(***************************************************************************)
\* np.random.rand draws the multiples of 1/RandDen in [0, 1)
RandDen == 2

RandVals == {Rat(k, RandDen) : k \in 0..(RandDen - 1)}

\* (size, scales) of the modelled calls
StackedShapes ==
    {<<<<2, 2>>, <<1>>>>, <<<<2, 3>>, <<1>>>>, <<<<2, 2>>, <<1, 1>>>>,
     <<<<2, 2>>, <<1, 2>>>>, <<<<4, 4>>, <<2>>>>, <<<<5, 4>>, <<2>>>>}

\* the weights argument: None or an explicit sequence
StackedWeights ==
    {<<"None">>, <<One>>, <<Rat(1, 2)>>, <<Zero>>, <<Rat(1, 2), Rat(1, 2)>>,
     <<Rat(1, 4), Rat(3, 4)>>, <<One, RNeg(One)>>}

\* 2**k for the scales of StackedShapes
RECURSIVE Pow2(_)
Pow2(k) == IF k = 0 THEN 1 ELSE 2 * Pow2(k - 1)

\* int(size * 2**(-scale+1)), scale >= 1
CoarseDim(n, scale) == n \div Pow2(scale - 1)

\* _calc_vs_weights(scales, vs) for 0 < vs < 180 and an array of scales that are all
\* equal: scale**(1/VS1) is then the same for every scale and each weight is
\* 1/len(scales)
CalcVsWeights(scales) == [k \in Idx(scales) |-> Rat(1, Len(scales))]

\* linear interpolation of the r-point grid on linspace(0,1,r) at the k-th
\* point of linspace(0,1,n): <<index of the left grid point, distance to it>>
GridPos(k, n, r) ==
    LET u == Rat((k - 1) * (r - 1), n - 1)
        fl == u[1] \div u[2]
        i0 == IF fl > r - 2 THEN r - 2 ELSE fl
    IN  <<i0 + 1, RSub(u, RInt(i0))>>

\* RegularGridInterpolator((x, y), random, method='linear') on the meshgrid
\* of the final size
Interpolate(random, coarse, size) ==
    [p \in Pixels(size) |->
        LET gi == GridPos(p[1], size[1], coarse[1])
            gj == GridPos(p[2], size[2], coarse[2])
            i == gi[1]
            j == gj[1]
            t == gi[2]
            u == gj[2]
            lo == RAdd(RMul(RSub(One, u), random[<<i, j>>]),
                       RMul(u, random[<<i, j + 1>>]))
            hi == RAdd(RMul(RSub(One, u), random[<<i + 1, j>>]),
                       RMul(u, random[<<i + 1, j + 1>>]))
        IN  RAdd(RMul(RSub(One, t), lo), RMul(t, hi))]

\* variant: the two asserts stripped
NormalizedOff(flat) == TRUE

\* assert np.min(field) == 0; assert np.max(field) == 1
Normalized(flat) == REq(RMin(flat), Zero) /\ REq(RMax(flat), One)

InitStacked ==
    /\ fn = "stacked_field"
    /\ \E sh \in StackedShapes, w \in StackedWeights :
          args = [size |-> sh[1], scales |-> sh[2], weights |-> w]
    /\ status = "called"
    /\ out = NoOut

\* field = np.zeros(size); the weights or the assert on their number
StackedStart ==
    /\ fn = "stacked_field"
    /\ status = "called"
    /\ IF args.weights = <<"None">>
       THEN /\ status' = "loop"
            /\ out' = [field |-> [p \in Pixels(args.size) |-> Zero],
                       weights |-> CalcVsWeights(args.scales), k |-> 1]
       ELSE IF Len(args.weights) = Len(args.scales)
       THEN /\ status' = "loop"
            /\ out' = [field |-> [p \in Pixels(args.size) |-> Zero],
                       weights |-> args.weights, k |-> 1]
       ELSE /\ status' = "AssertionError"
            /\ out' = NoOut
    /\ UNCHANGED <<fn, args>>

\* one iteration of the loop over zip(scales, weights); an interpolation
\* grid with fewer than two points along an axis cannot cover [0, 1] and
\* the interpolator raises
StackedLayer ==
    /\ fn = "stacked_field"
    /\ status = "loop"
    /\ out.k <= Len(args.scales)
    /\ LET coarse == <<CoarseDim(args.size[1], args.scales[out.k]),
                       CoarseDim(args.size[2], args.scales[out.k])>>
       IN  IF coarse[1] < 2 \/ coarse[2] < 2
           THEN /\ status' = "ValueError"
                /\ out' = NoOut
           ELSE \E random \in [Pixels(coarse) -> RandVals] :
                   LET i_field == Interpolate(random, coarse, args.size)
                   IN  /\ status' = "loop"
                       /\ out' = [field |-> [p \in Pixels(args.size) |->
                                               RAdd(out.field[p],
                                                    RMul(i_field[p], out.weights[out.k]))],
                                  weights |-> out.weights, k |-> out.k + 1]
    /\ UNCHANGED <<fn, args>>

\* field = field - np.min(field)
StackedShift ==
    /\ fn = "stacked_field"
    /\ status = "loop"
    /\ out.k > Len(args.scales)
    /\ \E lo \in {RMin(Flatten(out.field, args.size))} :
          out' = [field |-> [p \in Pixels(args.size) |-> RSub(out.field[p], lo)]]
    /\ status' = "shifted"
    /\ UNCHANGED <<fn, args>>

\* field = field / np.max(field); the two asserts; return field
StackedScale ==
    /\ fn = "stacked_field"
    /\ status = "shifted"
    /\ \E hi \in {RMax(Flatten(out.field, args.size))} :
          \E flat \in {[k \in 1..(args.size[1] * args.size[2]) |->
                          RDiv(Flatten(out.field, args.size)[k], hi)]} :
              IF Normalized(flat)
              THEN /\ status' = "returned"
                   /\ out' = [field |-> [p \in Pixels(args.size) |->
                                           RDiv(out.field[p], hi)]]
              ELSE /\ status' = "AssertionError"
                   /\ out' = NoOut
    /\ UNCHANGED <<fn, args>>

NextStacked == StackedStart \/ StackedLayer \/ StackedShift \/ StackedScale

SpecStacked == InitStacked /\ [][NextStacked]_vars

StackedReturned == fn = "stacked_field" /\ status = "returned"

\* C6: a field returned by stacked_field has global minimum exactly 0 and
\* global maximum exactly 1; a sum that cannot be normalized makes the call
\* fail instead.
C6_MinZeroMaxOne ==
    StackedReturned =>
        /\ \A p \in Pixels(args.size) :
              /\ IsFinite(out.field[p])
              /\ RLe(Zero, out.field[p]) /\ RLe(out.field[p], One)
        /\ \E p \in Pixels(args.size) : out.field[p] = Zero
        /\ \E p \in Pixels(args.size) : out.field[p] = One

\* a returned field of two layers with a value strictly between 0 and 1
C6_Witness ==
    /\ StackedReturned
    /\ Len(args.scales) = 2
    /\ \E p, q, r \in Pixels(args.size) :
          /\ out.field[p] = Zero /\ out.field[q] = One
          /\ RLt(Zero, out.field[r]) /\ RLt(out.field[r], One)

====
